---- MODULE Spec2Model ----
(***************************************************************************)
(* krankshaft.throttle.Throttle: the bucketed request throttle, its        *)
(* constructor, key(), timeout and allow(), run against a counter store    *)
(* with the semantics of Django's cache (get_many omits absent keys, incr  *)
(* raises ValueError on an absent key, set stores a value with a timeout). *)
(* krankshaft.api.API.dispatch: authentication, throttling and the view,   *)
(* as far as the response to a request depends on them.                    *)
(*                                                                         *)
(* Python values are modelled as follows.                                  *)
(*   - an optional value (None or v) is the sequence <<>> or <<v>>;        *)
(*   - a str is a TLA+ string, + is \o, str(int) is Str;                   *)
(*   - the result of a call is a record: the value returned, or the        *)
(*     exception raised.                                                   *)
(***************************************************************************)
EXTENDS Integers, Sequences, FiniteSets, TLC

\* ------------------------------------------------------------------ bounds

\* The clock runs over 0..MaxNow (whole seconds, int(self.timer())).
MaxNow == 4

\* Cap of the history counter of consecutive calls at one clock value.
MaxStreak == 3

\* Number of concurrent callers of allow() in SpecConc.
NCallers == 2

\* Number of key() results SpecKey keeps.
MaxKeyed == 2

\* ------------------------------------------------- Python values, arithmetic

None == <<>>

Some(v) == <<v>>

\* Python's a % b for b # 0: the result has the sign of b.
PyMod(a, b) == IF b > 0 THEN a % b ELSE -((-a) % (-b))

\* A division of two ints rounding up.
PyCeilDiv(a, b) == IF b > 0 THEN -((-a) \div b) ELSE -(a \div (-b))

\* Python 2's a / b on two ints, b # 0: floor division.
PyFloorDiv(a, b) == IF b > 0 THEN a \div b ELSE (-a) \div (-b)

\* int(a / b) when b is a float, b # 0: true division, truncated toward zero.
PyTruncDiv(a, b) ==
    LET abs(x) == IF x < 0 THEN -x ELSE x
        q == abs(a) \div abs(b)
    IN IF (a < 0) = (b < 0) THEN q ELSE -q

Digit(d) ==
    CASE d = 0 -> "0" [] d = 1 -> "1" [] d = 2 -> "2" [] d = 3 -> "3"
      [] d = 4 -> "4" [] d = 5 -> "5" [] d = 6 -> "6" [] d = 7 -> "7"
      [] d = 8 -> "8" [] d = 9 -> "9"

RECURSIVE StrNat(_)
StrNat(n) == IF n < 10 THEN Digit(n) ELSE StrNat(n \div 10) \o Digit(n % 10)

\* str(n) of an int.
Str(n) == IF n < 0 THEN "-" \o StrNat(-n) ELSE StrNat(n)

\* The value allow() hands back: what it returned or what it raised.
\*   Bare(b)     the bare bool b              (return True)
\*   Pair(b, h)  the tuple (b, h), h a dict   (return (False, {...}))
\*   Raise(e)    exception e left allow()
\* A dict of headers is the set of its <<name, optional int>> items.
Bare(b) == [type |-> "bool", allowed |-> b, headers |-> {}, exc |-> ""]

Pair(b, h) == [type |-> "pair", allowed |-> b, headers |-> h, exc |-> ""]

Raise(e) == [type |-> "raise", allowed |-> FALSE, headers |-> {}, exc |-> e]

\* ------------------------------------------------------------ construction

\* int(self.rate[1] * self.bucket_ratio), bucket_ratio = 0.1: one tenth of the
\* window, truncated toward zero.
BucketRatio(nsec) == PyTruncDiv(nsec, 10)

\* Throttle.__init__(bucket, cache, rate).
\*   a.bucket  None, or Some([td |-> is a timedelta, secs |-> whole seconds])
\*   a.rate    None, or Some(<<number of requests, window in seconds>>)
\* The object built: ok (FALSE: the constructor raised exc), args (what the
\* constructor was given), rate, bucket,
\* bfloat (the bucket is a float, from timedelta.total_seconds()), nbuckets.
\* No check of the rate's values is made; the only failure is the division by a
\* derived bucket of 0.
Construct(a) ==
    LET given == a.bucket # None /\ a.bucket[1].secs # 0
        nsec == a.rate[1][2]
        bucket == IF given THEN a.bucket[1].secs ELSE BucketRatio(nsec)
        bfloat == given /\ a.bucket[1].td
    IN IF a.rate = None
       THEN [ok |-> TRUE, exc |-> "", args |-> a, rate |-> None,
             bucket |-> IF given THEN a.bucket[1].secs ELSE 0,
             bfloat |-> bfloat, nbuckets |-> 0]
       ELSE IF bucket = 0
       THEN [ok |-> FALSE, exc |-> "ZeroDivisionError", args |-> a,
             rate |-> a.rate,
             bucket |-> 0, bfloat |-> FALSE, nbuckets |-> 0]
       ELSE [ok |-> TRUE, exc |-> "", args |-> a, rate |-> a.rate,
             bucket |-> bucket, bfloat |-> bfloat,
             nbuckets |-> IF bfloat THEN PyTruncDiv(nsec, bucket)
                                    ELSE PyFloorDiv(nsec, bucket)]

\* An expiry of the window alone, with no extra bucket.
TimeoutWindowOnly(th) == th.rate[1][2]

\* Throttle.timeout: the expiry given to a bucket entry by set().
Timeout(th) == th.rate[1][2] + th.bucket

\* --------------------------------------------------------------------- key

\* An auth object: kind "anon" (auth.id is None), "int" (auth.id is the int id,
\* as in the tests) or "map" (auth.id is the mapping {'id': id}, the one kind
\* of id for which key() returns).
AuthAnon == [kind |-> "anon", id |-> 0]

AuthInt(i) == [kind |-> "int", id |-> i]

AuthMap(i) == [kind |-> "map", id |-> i]

\* suffix or '': None and '' are both the empty suffix.
SuffixOr(suffix) == IF suffix = None THEN "" ELSE suffix[1]

\* key() without the suffix: every suffix of an identity shares one key.
KeyNoSuffix(auth, suffix) ==
    IF auth.kind = "map"
    THEN [ok |-> TRUE, key |-> "throttle_" \o Str(auth.id)]
    ELSE [ok |-> FALSE, key |-> ""]

\* Throttle.key(auth, suffix): (self.format % auth.id) + (suffix or '') with
\* format = 'throttle_%(id)s'. A format with a named field needs a mapping on
\* the right of %: for auth.id None or an int, Python raises TypeError
\* ("format requires a mapping"). No separator stands between id and suffix.
Key(auth, suffix) ==
    IF auth.kind = "map"
    THEN [ok |-> TRUE, key |-> "throttle_" \o Str(auth.id) \o SuffixOr(suffix)]
    ELSE [ok |-> FALSE, key |-> ""]

\* str(bucket) of a bucket timestamp: a float prints with ".0".
TsStr(th, b) == Str(b) \o (IF th.bfloat THEN ".0" ELSE "")

\* key + '_b' + str(bucket)
BucketKey(key, th, b) == key \o "_b" \o TsStr(th, b)

\* ----------------------------------------------------------------- buckets

RECURSIVE WalkNoBreak(_, _, _, _, _)
\* The loop without its break: nbuckets steps back whatever the window start.
WalkNoBreak(current, first, bsize, left, acc) ==
    IF left <= 0
    THEN acc
    ELSE WalkNoBreak(current - bsize, first, bsize, left - 1,
                     Append(acc, current - bsize))

RECURSIVE Walk(_, _, _, _, _)
\* for i in range(self.nbuckets): current -= bsize; stop below first.
Walk(current, first, bsize, left, acc) ==
    IF left <= 0 \/ current - bsize < first
    THEN acc
    ELSE Walk(current - bsize, first, bsize, left - 1, Append(acc, current - bsize))

\* The enumeration without its loop: the current bucket alone.
BucketsCurrentOnly(t, th) == <<t - PyMod(t, th.bucket)>>

\* The bucket timestamps allow() enumerates at clock t, newest first
\* (th.rate[1][2] # 0).
Buckets(t, th) ==
    LET bsize == th.bucket
        nsec == th.rate[1][2]
        current == t - PyMod(t, bsize)
        first == t - PyMod(t, nsec)
    IN Walk(current, first, bsize, th.nbuckets, <<current>>)

\* ------------------------------------------------------------ counter store
\* The store is a function from the keys present to [val, exp]: the count and
\* the optional clock value at which the entry expires.

\* cache.get_many(keys): the values of the keys present; absent keys are left
\* out of the result.
GetMany(c, keys) == [k \in keys \cap DOMAIN c |-> c[k].val]

\* cache.incr(key) on a key present: the count goes up, the expiry stays.
Incr(c, k) == [c EXCEPT ![k].val = @ + 1]

\* cache.set(key, value, timeout) at clock t.
Set(c, k, v, timeout, t) == (k :> [val |-> v, exp |-> Some(t + timeout)]) @@ c

\* The entries still alive at clock t.
Purge(c, t) ==
    LET alive == {k \in DOMAIN c : c[k].exp = None \/ t < c[k].exp[1]}
    IN [k \in alive |-> c[k]]

\* ------------------------------------------------------------------- allow

RECURSIVE SumVals(_, _, _)
\* sum([bval for bucket, bkey, bval in buckets if bval])
SumVals(cached, keys, i) ==
    IF i > Len(keys) THEN 0
    ELSE (IF cached[keys[i]] # 0 THEN cached[keys[i]] ELSE 0)
         + SumVals(cached, keys, i + 1)

\* The wait counted from the newest bucket with a count instead of the oldest.
RetryAfterNewest(cached, keys, bs, t, bsize) ==
    LET full == {i \in 1..Len(bs) : cached[keys[i]] # 0}
        newest == CHOOSE i \in full : \A j \in full : i <= j
    IN IF full = {} THEN None ELSE Some(t - bs[newest] + 2 * bsize)

\* The wait of a denial: reversed(buckets) is scanned for the first bucket with
\* a count (the oldest one), wait = now - bucket + 2 * bsize; None when no
\* bucket has a count.
RetryAfter(cached, keys, bs, t, bsize) ==
    LET full == {i \in 1..Len(bs) : cached[keys[i]] # 0}
        oldest == CHOOSE i \in full : \A j \in full : j <= i
    IN IF full = {} THEN None ELSE Some(t - bs[oldest] + 2 * bsize)

\* allow(auth, suffix) up to its decision, at clock t on store c: everything
\* before the store is written. done: allow() is over (it returned or raised)
\* with result res; otherwise the request is admitted and bkey, the key of the
\* current bucket, is still to be incremented. read: the keys passed to
\* get_many; gets: the number of get_many calls made.
Decide(c, t, th, auth, suffix) ==
    LET k == Key(auth, suffix)
        nreq == th.rate[1][1]
        nsec == th.rate[1][2]
        bs == Buckets(t, th)
        keys == [i \in 1..Len(bs) |-> BucketKey(k.key, th, bs[i])]
        read == {keys[i] : i \in 1..Len(bs)}
        cached == GetMany(c, read)
        over(res, rd, n) ==
            [done |-> TRUE, res |-> res, bkey |-> "", read |-> rd, gets |-> n]
    IN IF th.rate = None THEN over(Bare(TRUE), {}, 0)
       ELSE IF ~k.ok THEN over(Raise("TypeError"), {}, 0)
       ELSE IF nsec = 0 THEN over(Raise("ZeroDivisionError"), {}, 0)
       ELSE IF read # DOMAIN cached THEN over(Raise("KeyError"), read, 1)
       ELSE IF SumVals(cached, keys, 1) >= nreq
       THEN over(Pair(FALSE, {<<"X-Throttled-For",
                                RetryAfter(cached, keys, bs, t, th.bucket)>>}),
                 read, 1)
       ELSE [done |-> FALSE, res |-> Pair(TRUE, {}), bkey |-> keys[1],
             read |-> read, gets |-> 1]

\* try: cache.incr(bkey) / except ValueError: cache.set(bkey, 1, self.timeout),
\* at clock t: the store afterwards.
Record(c, t, th, bkey) ==
    IF bkey \in DOMAIN c THEN Incr(c, bkey) ELSE Set(c, bkey, 1, Timeout(th), t)

\* ------------------------------------------------------------------- state

VARIABLES
    throttle,   \* the Throttle object built by the constructor
    now,        \* the clock, int(self.timer())
    cache,      \* the counter store
    last,       \* history: the last call of allow() that ended
    admitted,   \* history: <<key, clock>> |-> number of requests admitted
    keyed,      \* history: <<auth, suffix>> |-> what key(auth, suffix) gave
    callers,    \* the concurrent callers: where each is in allow()
    api         \* the API: its dispatch options and the requests it has served

vars == <<throttle, now, cache, last, admitted, keyed, callers, api>>

\* The (bucket, rate) arguments the constructor is given.
CtorArgs ==
    LET td(s) == Some([td |-> TRUE, secs |-> s])
        secs(s) == Some([td |-> FALSE, secs |-> s])
        rate(n, w) == Some(<<n, w>>)
    IN { [bucket |-> None,    rate |-> None],
         [bucket |-> td(2),   rate |-> rate(1, 4)],
         [bucket |-> secs(2), rate |-> rate(2, 4)],
         [bucket |-> secs(2), rate |-> rate(1, 3)],
         [bucket |-> None,    rate |-> rate(1, 10)],
         [bucket |-> None,    rate |-> rate(1, 4)],
         [bucket |-> secs(2), rate |-> rate(0, 4)],
         [bucket |-> secs(2), rate |-> rate(-1, 4)],
         [bucket |-> secs(2), rate |-> rate(1, 0)],
         [bucket |-> None,    rate |-> rate(1, 0)] }

\* The callers of allow(): an anonymous one, one whose id is an int and one
\* whose id is a mapping.
Auths == {AuthAnon, AuthInt(1), AuthMap(1)}

Suffixes == {None, Some("1")}

\* What the shared store may hold when the limiter starts: nothing, or, for
\* some key families, an entry of count 0 for every timestamp, left there with
\* or without an expiry.
SeedIds == {{}, {1}, {1, 11}}

Seeded(th, ids, exp) ==
    LET keys == {BucketKey("throttle_" \o Str(i), th, t) : i \in ids, t \in 0..MaxNow}
    IN [k \in keys |-> [val |-> 0, exp |-> exp]]

\* A caller that is not inside allow().
Idle == [pc |-> "idle", bkey |-> "", at |-> 0, read |-> {}]

NoCall ==
    [auth |-> AuthAnon, suffix |-> None, at |-> 0, res |-> Raise("no call"),
     read |-> {}, gets |-> 0, incrs |-> 0, sets |-> 0, empty |-> FALSE,
     streak |-> 0, honoured |-> FALSE]

\* An API that serves no request.
NoDispatch == [opts |-> <<>>, log |-> <<>>]

Init ==
    /\ throttle \in {Construct(a) : a \in CtorArgs}
    /\ now = 0
    /\ cache \in {Seeded(throttle, ids, None) : ids \in SeedIds}
    /\ last = NoCall
    /\ admitted = <<>>
    /\ keyed = <<>>
    /\ callers = [p \in 1..NCallers |-> Idle]
    /\ api = NoDispatch

\* One more request admitted for key at clock t.
Admit(log, key, t) ==
    LET e == <<key, t>>
    IN IF e \in DOMAIN log THEN [log EXCEPT ![e] = @ + 1] ELSE (e :> 1) @@ log

\* The number of consecutive calls for one key at one clock value, counted
\* from a call that found the store empty (0: not in such a run).
Streak(auth, suffix) ==
    IF cache = <<>> THEN 1
    ELSE IF /\ last.streak > 0
            /\ last.auth = auth
            /\ SuffixOr(last.suffix) = SuffixOr(suffix)
            /\ last.at = now
         THEN IF last.streak < MaxStreak THEN last.streak + 1 ELSE MaxStreak
         ELSE 0

\* The call follows a denial of the same key, the call before it, and is made
\* when the clock has advanced by exactly the wait the denial gave.
Honoured(auth, suffix) ==
    /\ last.res.type = "pair"
    /\ ~last.res.allowed
    /\ last.auth = auth
    /\ SuffixOr(last.suffix) = SuffixOr(suffix)
    /\ \E h \in last.res.headers :
          h[1] = "X-Throttled-For" /\ h[2] # None /\ now = last.at + h[2][1]

\* allow() keeping a count in the object: every admission uses up one request
\* of the instance's own rate, a state a new instance does not start with.
AllowInProcess(auth, suffix) ==
    /\ throttle.ok
    /\ \E d \in {Decide(cache, now, throttle, auth, suffix)} :
       /\ cache' = IF d.done THEN cache ELSE Record(cache, now, throttle, d.bkey)
       /\ last' = [auth |-> auth, suffix |-> suffix, at |-> now, res |-> d.res,
                   read |-> d.read, gets |-> d.gets,
                   incrs |-> IF d.done THEN 0 ELSE 1,
                   sets |-> IF d.done \/ d.bkey \in DOMAIN cache THEN 0 ELSE 1,
                   empty |-> cache = <<>>,
                   streak |-> Streak(auth, suffix),
                   honoured |-> Honoured(auth, suffix)]
       /\ admitted' = IF d.done THEN admitted
                      ELSE Admit(admitted, Key(auth, suffix).key, now)
       /\ throttle' = IF d.done THEN throttle
                      ELSE [throttle EXCEPT !.rate =
                               Some(<<throttle.rate[1][1] - 1, throttle.rate[1][2]>>)]
       /\ UNCHANGED <<now, keyed, callers, api>>

\* allow() counting the requests it denies too: a denial adds 1 to the
\* current bucket.
AllowCountsDenied(auth, suffix) ==
    /\ throttle.ok
    /\ \E d \in {Decide(cache, now, throttle, auth, suffix)} :
       /\ cache' = IF ~d.done THEN Record(cache, now, throttle, d.bkey)
                   ELSE IF d.res.type = "pair" /\ ~d.res.allowed
                   THEN Incr(cache, BucketKey(Key(auth, suffix).key, throttle,
                                              now - PyMod(now, throttle.bucket)))
                   ELSE cache
       /\ last' = [auth |-> auth, suffix |-> suffix, at |-> now, res |-> d.res,
                   read |-> d.read, gets |-> d.gets,
                   incrs |-> IF d.done THEN 0 ELSE 1,
                   sets |-> IF d.done \/ d.bkey \in DOMAIN cache THEN 0 ELSE 1,
                   empty |-> cache = <<>>,
                   streak |-> Streak(auth, suffix),
                   honoured |-> Honoured(auth, suffix)]
       /\ admitted' = IF d.done THEN admitted
                      ELSE Admit(admitted, Key(auth, suffix).key, now)
       /\ UNCHANGED <<throttle, now, keyed, callers, api>>

\* A whole call allow(auth, suffix), no other call in between.
Allow(auth, suffix) ==
    /\ throttle.ok
    /\ \E d \in {Decide(cache, now, throttle, auth, suffix)} :
       /\ cache' = IF d.done THEN cache ELSE Record(cache, now, throttle, d.bkey)
       /\ last' = [auth |-> auth, suffix |-> suffix, at |-> now, res |-> d.res,
                   read |-> d.read, gets |-> d.gets,
                   incrs |-> IF d.done THEN 0 ELSE 1,
                   sets |-> IF d.done \/ d.bkey \in DOMAIN cache THEN 0 ELSE 1,
                   empty |-> cache = <<>>,
                   streak |-> Streak(auth, suffix),
                   honoured |-> Honoured(auth, suffix)]
       /\ admitted' = IF d.done THEN admitted
                      ELSE Admit(admitted, Key(auth, suffix).key, now)
       /\ UNCHANGED <<throttle, now, keyed, callers, api>>

\* The clock advances by a second; the entries whose expiry is reached are gone.
Tick ==
    /\ now < MaxNow
    /\ now' = now + 1
    /\ cache' = Purge(cache, now + 1)
    /\ UNCHANGED <<throttle, last, admitted, keyed, callers, api>>

Next ==
    \/ Tick
    \/ \E auth \in Auths, suffix \in Suffixes : Allow(auth, suffix)

Spec == Init /\ [][Next]_vars

\* ------------------------------------------------------- concurrent callers
\* NCallers callers run allow() for one key against the shared store. Each
\* store operation is one step: the bulk read with the decision (lines 65-120),
\* the incr (line 124) and, after its ValueError, the set (line 127). The clock
\* may advance, and entries expire, between the steps of a call.

ConcAuth == AuthMap(1)

ConcSuffix == None

\* The limiters the callers share: 2 per 4 and 1 per 3 seconds, and one with a
\* window below 0, which the constructor builds like any other.
ConcArgs ==
    { [bucket |-> Some([td |-> FALSE, secs |-> 2]), rate |-> Some(<<2, 4>>)],
      [bucket |-> Some([td |-> FALSE, secs |-> 2]), rate |-> Some(<<1, 3>>)],
      [bucket |-> Some([td |-> FALSE, secs |-> 2]), rate |-> Some(<<1, -4>>)] }

\* The expiry of the entries found in the store at the start.
SeedExps == {None, Some(3)}

InitConc ==
    /\ throttle \in {Construct(a) : a \in ConcArgs}
    /\ now = 0
    /\ cache \in {<<>>} \cup {Seeded(throttle, {1}, exp) : exp \in SeedExps}
    /\ last = NoCall
    /\ admitted = <<>>
    /\ keyed = <<>>
    /\ callers = [p \in 1..NCallers |-> Idle]
    /\ api = NoDispatch

\* The call of caller p is over, with result res.
Ended(p, res, read, at, incrs, sets) ==
    /\ callers' = [callers EXCEPT ![p] = Idle]
    /\ last' = [NoCall EXCEPT !.auth = ConcAuth, !.suffix = ConcSuffix,
                              !.at = at, !.res = res, !.read = read,
                              !.gets = 1, !.incrs = incrs, !.sets = sets]

\* Caller p enters allow() and runs it up to its decision.
Begin(p) ==
    /\ callers[p].pc = "idle"
    /\ \E d \in {Decide(cache, now, throttle, ConcAuth, ConcSuffix)} :
         IF d.done
         THEN /\ Ended(p, d.res, d.read, now, 0, 0)
              /\ UNCHANGED admitted
         ELSE /\ callers' = [callers EXCEPT ![p] =
                    [pc |-> "incr", bkey |-> d.bkey, at |-> now, read |-> d.read]]
              /\ admitted' = Admit(admitted, Key(ConcAuth, ConcSuffix).key, now)
              /\ UNCHANGED last
    /\ UNCHANGED <<throttle, now, cache, keyed, api>>

\* self.cache.incr(bucket_current[1]): ValueError when the key is absent.
IncrStep(p) ==
    /\ callers[p].pc = "incr"
    /\ IF callers[p].bkey \in DOMAIN cache
       THEN /\ cache' = Incr(cache, callers[p].bkey)
            /\ Ended(p, Pair(TRUE, {}), callers[p].read, callers[p].at, 1, 0)
       ELSE /\ callers' = [callers EXCEPT ![p].pc = "set"]
            /\ UNCHANGED <<cache, last>>
    /\ UNCHANGED <<throttle, now, admitted, keyed, api>>

\* self.cache.set(bucket_current[1], 1, self.timeout)
SetStep(p) ==
    /\ callers[p].pc = "set"
    /\ cache' = Set(cache, callers[p].bkey, 1, Timeout(throttle), now)
    /\ Ended(p, Pair(TRUE, {}), callers[p].read, callers[p].at, 1, 1)
    /\ UNCHANGED <<throttle, now, admitted, keyed, api>>

NextConc ==
    \/ Tick
    \/ \E p \in 1..NCallers : Begin(p)
    \/ \E p \in 1..NCallers : IncrStep(p)
    \/ \E p \in 1..NCallers : SetStep(p)

SpecConc == InitConc /\ [][NextConc]_vars

\* ---------------------------------------------------------- a failing store
\* The store may fail: any of its three operations may raise an error of its
\* own, StoreError, which is no ValueError. allow() has one handler, the
\* "except ValueError" around incr (lines 123-127).

\* A try whose handler catches whatever is raised.
CatchesAny(exc) == TRUE

\* except ValueError: the exceptions the handler around incr catches.
Catches(exc) == exc = "ValueError"

\* The request counted as admitted at clock t did not get through.
Withdraw(log, key, t) == [log EXCEPT ![<<key, t>>] = @ - 1]

\* Caller p enters allow() and its get_many raises StoreError (line 87, in no
\* try): the error leaves allow().
FailGet(p) ==
    /\ callers[p].pc = "idle"
    /\ \E d \in {Decide(cache, now, throttle, ConcAuth, ConcSuffix)} :
         /\ d.gets = 1
         /\ Ended(p, Raise("StoreError"), d.read, now, 0, 0)
    /\ UNCHANGED <<throttle, now, cache, admitted, keyed, api>>

\* The incr of caller p raises StoreError (line 124): the handler takes it to
\* the set if it catches it, otherwise the error leaves allow().
FailIncr(p) ==
    /\ callers[p].pc = "incr"
    /\ IF Catches("StoreError")
       THEN /\ callers' = [callers EXCEPT ![p].pc = "set"]
            /\ UNCHANGED <<last, admitted>>
       ELSE /\ Ended(p, Raise("StoreError"), callers[p].read, callers[p].at, 1, 0)
            /\ admitted' = Withdraw(admitted, Key(ConcAuth, ConcSuffix).key,
                                    callers[p].at)
    /\ UNCHANGED <<throttle, now, cache, keyed, api>>

\* The set of caller p raises StoreError (line 127, inside the handler): the
\* error leaves allow().
FailSet(p) ==
    /\ callers[p].pc = "set"
    /\ Ended(p, Raise("StoreError"), callers[p].read, callers[p].at, 1, 1)
    /\ admitted' = Withdraw(admitted, Key(ConcAuth, ConcSuffix).key, callers[p].at)
    /\ UNCHANGED <<throttle, now, cache, keyed, api>>

\* The callers at work on the failing store: one, whose call the clock may
\* interleave with.
FailCallers == {1}

NextFail ==
    \/ Tick
    \/ \E p \in FailCallers : Begin(p)
    \/ \E p \in FailCallers : IncrStep(p)
    \/ \E p \in FailCallers : SetStep(p)
    \/ \E p \in FailCallers : FailGet(p)
    \/ \E p \in FailCallers : FailIncr(p)
    \/ \E p \in FailCallers : FailSet(p)

SpecFail == InitConc /\ [][NextFail]_vars

\* ------------------------------------------------------------ key() alone
\* key() applied to pairs (auth, suffix) drawn from KeyAuths and KeySuffixes;
\* keyed keeps what each call gave.

KeyAuths == {AuthAnon, AuthInt(1), AuthMap(1), AuthMap(11)}

KeySuffixes == {None, Some(""), Some("1"), Some("a")}

InitKey ==
    /\ throttle = Construct([bucket |-> None, rate |-> None])
    /\ now = 0
    /\ cache = <<>>
    /\ last = NoCall
    /\ admitted = <<>>
    /\ keyed = <<>>
    /\ callers = [p \in 1..NCallers |-> Idle]
    /\ api = NoDispatch

KeyCall(auth, suffix) ==
    /\ <<auth, suffix>> \notin DOMAIN keyed
    /\ Cardinality(DOMAIN keyed) < MaxKeyed
    /\ keyed' = (<<auth, suffix>> :> Key(auth, suffix)) @@ keyed
    /\ UNCHANGED <<throttle, now, cache, last, admitted, callers, api>>

NextKey == \E auth \in KeyAuths, suffix \in KeySuffixes : KeyCall(auth, suffix)

SpecKey == InitKey /\ [][NextKey]_vars

\* ------------------------------------------------- the limiters of the tests
\* The three limiters of tests/krankshaft/test_throttle.py, each used as the
\* tests use it: the clock is frozen at some value (timer = lambda: self.now)
\* and allow() is called repeatedly for one identity with no suffix.

\* The largest frozen clock value tried.
TestNow == 70

\* ThrottleRateTest.setUp, test_allow_default and
\* test_allow_period_not_evenly_divisible.
TestArgs ==
    LET td(s) == Some([td |-> TRUE, secs |-> s])
    IN { [bucket |-> td(2),  rate |-> Some(<<1, 10>>)],
         [bucket |-> None,   rate |-> Some(<<1, 60>>)],
         [bucket |-> td(10), rate |-> Some(<<1, 61>>)] }

TestAuths == {AuthInt(1), AuthMap(1)}

\* Count-0 entries for every timestamp up to hi, for the key families of ids.
SeededTo(th, ids, exp, hi) ==
    LET keys == {BucketKey("throttle_" \o Str(i), th, t) : i \in ids, t \in 0..hi}
    IN [k \in keys |-> [val |-> 0, exp |-> exp]]

\* The store is cleared (self.cache.clear()), or holds count 0 for the buckets
\* of the identity.
InitTest ==
    /\ throttle \in {Construct(a) : a \in TestArgs}
    /\ now \in 0..TestNow
    /\ cache \in {<<>>, SeededTo(throttle, {1}, None, TestNow)}
    /\ last = NoCall
    /\ admitted = <<>>
    /\ keyed = <<>>
    /\ callers = [p \in 1..NCallers |-> Idle]
    /\ api = NoDispatch

NextTest == \E auth \in TestAuths : Allow(auth, None)

SpecTest == InitTest /\ [][NextTest]_vars

\* ---------------------------------------------------- the constructor alone
\* Limiters built from every bucket up to MaxBucket, given as int seconds, as
\* a timedelta or not at all, and every window up to MaxWindow (the window is
\* what line 51 leaves of it: int seconds, whatever it was given as); each is
\* then used by one identity.

MaxBucket == 4

MaxWindow == 12

GridArgs ==
    LET sizes == {None}
                 \cup {Some([td |-> TRUE, secs |-> b]) : b \in 1..MaxBucket}
                 \cup {Some([td |-> FALSE, secs |-> b]) : b \in 1..MaxBucket}
    IN {[bucket |-> b, rate |-> Some(<<1, w>>)] : b \in sizes, w \in 1..MaxWindow}

InitCtor ==
    /\ throttle \in {Construct(a) : a \in GridArgs}
    /\ now = 0
    /\ cache = Seeded(throttle, {1}, None)
    /\ last = NoCall
    /\ admitted = <<>>
    /\ keyed = <<>>
    /\ callers = [p \in 1..NCallers |-> Idle]
    /\ api = NoDispatch

NextCtor == Tick \/ Allow(AuthMap(1), None)

SpecCtor == InitCtor /\ [][NextCtor]_vars

\* ------------------------------------------------------------ API.dispatch
\* One API whose dispatch options were fixed when the view was registered,
\* serving requests one after the other.

\* The largest number of requests served.
MaxRequests == 2

\* Python's binding of a call to a function: params are the parameter names
\* after self, the first `required` of them with no default; the call passes
\* npos positional arguments and the keywords kws. When it does not bind the
\* call raises TypeError.
Binds(params, required, npos, kws) ==
    LET names == {params[i] : i \in 1..Len(params)}
    IN /\ npos <= Len(params)
       /\ kws \subseteq names
       /\ \A i \in 1..npos : params[i] \notin kws
       /\ \A i \in 1..required : i <= npos \/ params[i] \in kws

\* def __init__(self, bucket=None, cache=None, rate=None)
InitParams == <<"bucket", "cache", "rate">>

\* def allow(self, auth, suffix=None)
AllowParams == <<"auth", "suffix">>

\* opts['throttle']. kind "off": False; kind "class": the Throttle class,
\* called with the keywords kws already bound (functools.partial); kind
\* "fitting": some callable that takes (request, auth) and returns an object
\* whose allow(suffix=...) returns a pair.
ThrottleOff == [kind |-> "off", kws |-> {}]

\* opts['throttle'] is True: self.Throttle, the class itself.
ThrottleClass == [kind |-> "class", kws |-> {}]

\* ThrottleOne of the tests.
ThrottleOne ==
    [kind |-> "class",
     kws |-> {"anon_bucket", "anon_rate", "bucket", "cache", "rate"}]

ThrottleFitting == [kind |-> "fitting", kws |-> {}]

\* util.kw_as_header: '_' becomes '-' (of the names passed, "Allow" and
\* "X-Throttled-For" have none).
KwAsHeader(kw) ==
    CASE kw = "Content_Type" -> "Content-Type"
      [] OTHER -> kw

\* The value of a header as the response holds it: the str() of what it was
\* given.
HeaderStr(v) == IF v = None THEN "None" ELSE Str(v[1])

\* The attributes of a request are the set of its <<name, value>> pairs.
\* Annotate.__enter__: setattr(obj, name, value) for every annotation.
AnnotateEnter(attrs, annotations) ==
    {x \in attrs : \A y \in annotations : x[1] # y[1]} \cup annotations

\* An __exit__ that leaves the annotations on the object.
AnnotateExitKeeps(attrs, annotations) == attrs

\* Annotate.__exit__: delattr(obj, name) for every annotation.
AnnotateExit(attrs, annotations) ==
    {x \in attrs : \A y \in annotations : x[1] # y[1]}

\* A response: what dispatch returns. viewed: the view was run; seen: the
\* request's attributes while it ran; left: the request's attributes when
\* dispatch returned; steps: the calls dispatch made, in order.
\* API.response(request, status, **headers), with no content.
Response(status, headers) ==
    [status |-> status,
     headers |-> {<<KwAsHeader(h[1]), h[2]>> : h \in headers},
     content |-> "", viewed |-> FALSE, seen |-> {}, left |-> {}]

\* API.throttled(request, **headers): the headers are those of allow().
Throttled(headers) == Response(429, {<<h[1], HeaderStr(h[2])>> : h \in headers})

\* handle_exc -> handler500: the serialized error.
Handler500 ==
    [status |-> 500, headers |-> {<<"Content-Type", "application/json">>},
     content |-> "error", viewed |-> FALSE, seen |-> {}, left |-> {}]

\* The view as dispatch runs it when opts['only'] is set: the request as it
\* came. The view returns its serialized payload, or raises and the except
\* clause of dispatch answers.
ViewOnly(raises) ==
    IF raises
    THEN [Handler500 EXCEPT !.viewed = TRUE]
    ELSE [status |-> 200, headers |-> {<<"Content-Type", "application/json">>},
          content |-> "payload", viewed |-> TRUE, seen |-> {}, left |-> {}]

\* with Annotate(request, annotations): return view(request): the request,
\* which came with no attribute of these names, carries the annotations while
\* the view runs; __exit__ runs when the view returns and when it raises.
View(annotations, raises) ==
    LET during == AnnotateEnter({}, annotations)
        after == AnnotateExit(during, annotations)
    IN [ViewOnly(raises) EXCEPT !.seen = during, !.left = after]

\* The calls made are steps and the response is r.
Did(steps, r) == r @@ [steps |-> steps]

\* Lines 274-285 of dispatch, the request authenticated: the throttle is
\* built and asked. stop: dispatch returns r here.
Consult(o, answer) ==
    LET go(steps) == [stop |-> FALSE, steps |-> steps, r |-> Handler500]
        end(steps, r) == [stop |-> TRUE, steps |-> steps, r |-> r]
    IN IF o.throttle.kind = "off" THEN go(<<>>)
       ELSE IF o.throttle.kind = "class"
       THEN IF ~Binds(InitParams, 0, 2, o.throttle.kws)
            THEN end(<<"throttle", "handle_exc">>, Handler500)
            ELSE IF ~Binds(AllowParams, 1, 0, {"suffix"})
            THEN end(<<"throttle", "allow", "handle_exc">>, Handler500)
            ELSE go(<<"throttle", "allow">>)
       ELSE IF answer.type # "pair"
       THEN end(<<"throttle", "allow", "handle_exc">>, Handler500)
       ELSE IF ~answer.allowed
       THEN end(<<"throttle", "allow", "throttled">>, Throttled(answer.headers))
       ELSE go(<<"throttle", "allow">>)

\* The annotations of an authenticated request.
Annotations(o) ==
    {<<"auth", "Auth">>,
     <<"throttle", IF o.throttle.kind = "off" THEN "False" ELSE "Throttle">>}

\* The steps of running the view.
Viewing(raises) == IF raises THEN <<"view", "handle_exc">> ELSE <<"view">>

\* dispatch asking the throttle before it looks at the authentication.
DispatchedThrottleFirst(o, req, answer) ==
    IF o.only THEN Did(Viewing(req.raises), ViewOnly(req.raises))
    ELSE IF ~req.method THEN Did(<<>>, Response(405, {<<"Allow", "GET">>}))
    ELSE IF ~o.auth
    THEN Did(Viewing(req.raises),
             View({<<"auth", "False">>, <<"throttle", "None">>}, req.raises))
    ELSE LET c == Consult(o, answer)
         IN
           IF c.stop THEN Did(<<"authenticate">> \o c.steps, c.r)
           ELSE IF ~req.authed
           THEN Did(<<"authenticate">> \o c.steps \o <<"challenge">>,
                    Response(401, {}))
           ELSE Did(<<"authenticate">> \o c.steps \o Viewing(req.raises),
                    View(Annotations(o), req.raises))

\* API.dispatch(view, opts, request) -> response.
\*   o.only, o.auth  opts['only'], opts['auth'] is the Auth class (or False)
\*   o.throttle      opts['throttle']
\*   req.method      the request's method is among opts['methods']
\*   req.authed      authenticate() accepts the request
\*   req.raises      the view raises on this request
\*   answer          what allow() of a fitting throttle returns
Dispatched(o, req, answer) ==
    IF o.only THEN Did(Viewing(req.raises), ViewOnly(req.raises))
    ELSE IF ~req.method THEN Did(<<>>, Response(405, {<<"Allow", "GET">>}))
    ELSE IF ~o.auth
    THEN Did(Viewing(req.raises),
             View({<<"auth", "False">>, <<"throttle", "None">>}, req.raises))
    ELSE IF ~req.authed
    THEN Did(<<"authenticate", "challenge">>, Response(401, {}))
    ELSE LET c == Consult(o, answer)
         IN
           IF c.stop THEN Did(<<"authenticate">> \o c.steps, c.r)
           ELSE Did(<<"authenticate">> \o c.steps \o Viewing(req.raises),
                    View(Annotations(o), req.raises))

ApiOpts ==
    [only : BOOLEAN, auth : BOOLEAN,
     throttle : {ThrottleOff, ThrottleClass, ThrottleOne, ThrottleFitting}]

Requests == [method : BOOLEAN, authed : BOOLEAN, raises : BOOLEAN]

\* What allow() of a fitting throttle may return.
Answers == {Pair(TRUE, {}), Pair(FALSE, {<<"X-Throttled-For", Some(13)>>})}

InitApi ==
    /\ throttle = Construct([bucket |-> None, rate |-> None])
    /\ now = 0
    /\ cache = <<>>
    /\ last = NoCall
    /\ admitted = <<>>
    /\ keyed = <<>>
    /\ callers = [p \in 1..NCallers |-> Idle]
    /\ api \in {[opts |-> <<o>>, log |-> <<>>] : o \in ApiOpts}

\* The API serves one more request.
Dispatch(req, answer) ==
    /\ Len(api.log) < MaxRequests
    /\ api' = [api EXCEPT !.log =
                  Append(@, [req |-> req,
                             res |-> Dispatched(api.opts[1], req, answer)])]
    /\ UNCHANGED <<throttle, now, cache, last, admitted, keyed, callers>>

NextApi == \E req \in Requests, answer \in Answers : Dispatch(req, answer)

SpecApi == InitApi /\ [][NextApi]_vars

\* ------------------------------------------------------------------ claims

\* A call of allow() has ended.
Called == last # NoCall

\* The limiter has a rate with limit >= 1 and window >= 1.
ProperRate ==
    /\ throttle.ok
    /\ throttle.rate # None
    /\ throttle.rate[1][1] >= 1
    /\ throttle.rate[1][2] >= 1

NoStoreCall == last.gets = 0 /\ last.incrs = 0 /\ last.sets = 0

Denied == last.res.type = "pair" /\ ~last.res.allowed

\* C1: a limiter constructed with no rate answers every allow() with the pair
\* (True, {}) and makes no call on the counter store.
C1_NoRatePair ==
    (Called /\ throttle.rate = None) => (last.res = Pair(TRUE, {}) /\ NoStoreCall)

\* C2: from an empty store, at one clock value, the calls of allow() for one
\* key are admitted with (True, {}) up to the limit-th and denied after it.
C2_FirstLimitAdmitted ==
    (ProperRate /\ last.streak > 0 /\ last.auth # AuthAnon) =>
        IF last.streak <= throttle.rate[1][1]
        THEN last.res = Pair(TRUE, {})
        ELSE Denied

\* C3: when get_many leaves out the keys that were never set, allow() counts
\* them as zero: on a store with no entry, with limit >= 1, the call that made
\* the bulk read does not fail and returns (True, {}).
C3_AbsentKeysCountZero ==
    (ProperRate /\ Called /\ last.empty /\ last.gets = 1) =>
        last.res = Pair(TRUE, {})

\* C4: a call made for a key exactly the advised wait after its denial, with
\* no call in between, is admitted with (True, {}).
C4_AdmittedAfterWait ==
    (throttle.rate # None /\ last.honoured) => last.res = Pair(TRUE, {})

\* C5: with a rate configured, allow() of an anonymous identity returns
\* (False, {}), with no retry hint, and makes no call on the counter store.
C5_AnonymousDenied ==
    (Called /\ throttle.rate # None /\ last.auth = AuthAnon) =>
        (last.res = Pair(FALSE, {}) /\ NoStoreCall)

\* The store keys of the counter family of (auth, suffix): the keys of its
\* buckets, one per timestamp.
Family(auth, suffix) ==
    IF Key(auth, suffix).ok
    THEN {BucketKey(Key(auth, suffix).key, throttle, t) : t \in 0..MaxNow}
    ELSE {}

\* The suffixes a call is compared with in C6.
OtherSuffixes == Suffixes \cup {Some(""), Some("_b0"), Some("1_b")}

\* A store restricted to a set of keys.
Only(c, keys) == [k \in keys \cap DOMAIN c |-> c[k]]

\* C6: a call allow(identity, a) reads and changes no store entry of the family
\* of (identity, b) for a suffix b other than a, and leaves what
\* allow(identity, b) decides at that clock as it was. (The steps that leave
\* the clock alone are the calls of allow(); last' holds the call made.)
C6_SuffixIsolation ==
    [][now' = now =>
          \A b \in OtherSuffixes :
              SuffixOr(last'.suffix) # SuffixOr(b) =>
                  \E fam \in {Family(last'.auth, b)} :
                      /\ last'.read \cap fam = {}
                      /\ Only(cache', fam) = Only(cache, fam)
                      /\ Decide(cache', now, throttle, last'.auth, b)
                           = Decide(cache, now, throttle, last'.auth, b)]_vars

\* C6 witness: a request is admitted under suffix '1' at a clock value at which
\* the quota of the same identity under no suffix is used up.
C6_Witness ==
    /\ ProperRate
    /\ last.auth = AuthMap(1)
    /\ last.suffix = Some("1")
    /\ last.res = Pair(TRUE, {})
    /\ last.at = now
    /\ Decide(cache, now, throttle, AuthMap(1), None).done
    /\ Decide(cache, now, throttle, AuthMap(1), None).res.type = "pair"
    /\ <<"throttle_1", now>> \in DOMAIN admitted

\* C7: key() gives every pair (id, suffix) a key, and gives two pairs that
\* differ in the id or in the suffix (None and '' being one suffix) two keys.
C7_KeyInjective ==
    \A p \in DOMAIN keyed, q \in DOMAIN keyed :
        /\ p[1] # AuthAnon => keyed[p].ok
        /\ (keyed[p].ok /\ keyed[q].ok /\ keyed[p].key = keyed[q].key) =>
               (p[1] = q[1] /\ SuffixOr(p[2]) = SuffixOr(q[2]))

\* The requests admitted for key at the clock values from..to.
AdmittedIn(key, from, to) ==
    LET at(t) == IF <<key, t>> \in DOMAIN admitted THEN admitted[<<key, t>>] ELSE 0
        sum[t \in (from - 1)..to] == IF t < from THEN 0 ELSE at(t) + sum[t - 1]
    IN sum[to]

\* C9: in sequential use no request is admitted for a key while limit requests
\* admitted for it less than window_seconds earlier exist: the requests
\* admitted in the window_seconds up to any admission number at most limit.
C9_NoUndercount ==
    ProperRate =>
        \A e \in DOMAIN admitted :
            AdmittedIn(e[1], e[2] - throttle.rate[1][2] + 1, e[2])
                <= throttle.rate[1][1]

\* C10: no limiter is constructed with a rate whose limit or window is <= 0.
C10_BadRateRejected ==
    (throttle.ok /\ throttle.rate # None) =>
        (throttle.rate[1][1] > 0 /\ throttle.rate[1][2] > 0)

\* C8: with NCallers concurrent callers of allow() for one key, the requests
\* admitted within one window [k * window, (k + 1) * window) number at most
\* limit + (NCallers - 1).
C8_BoundedOvershoot ==
    ProperRate =>
        \A k \in 0..(MaxNow \div throttle.rate[1][2]) :
            AdmittedIn(Key(ConcAuth, ConcSuffix).key,
                       k * throttle.rate[1][2],
                       (k + 1) * throttle.rate[1][2] - 1)
                <= throttle.rate[1][1] + (NCallers - 1)

\* C11: a limiter given a rate with window >= 1 and no bucket is constructed,
\* with bucket_seconds = int(window * 0.1) clamped to at least 1.
C11_DerivedBucketClamped ==
    (throttle.args.rate # None /\ throttle.args.bucket = None
        /\ throttle.args.rate[1][2] >= 1) =>
        /\ throttle.ok
        /\ throttle.bucket = IF BucketRatio(throttle.args.rate[1][2]) = 0 THEN 1
                             ELSE BucketRatio(throttle.args.rate[1][2])

\* C12: on a limiter with a rate every result allow() returns is a pair; the
\* map of an admission is empty, the map of a denial has the one field
\* X-Throttled-For, whose value is an integer.
C12_ResultShape ==
    (Called /\ throttle.rate # None /\ last.res.type # "raise") =>
        /\ last.res.type = "pair"
        /\ last.res.allowed => last.res.headers = {}
        /\ ~last.res.allowed =>
              \E h \in last.res.headers :
                  /\ last.res.headers = {h}
                  /\ h[1] = "X-Throttled-For"
                  /\ h[2] # None
                  /\ h[2][1] \in Int

\* The limiter was constructed from bucket b and rate (n, w).
IsTest(b, n, w) ==
    throttle.args = [bucket |-> b, rate |-> Some(<<n, w>>)]

XThrottledFor(n) == Pair(FALSE, {<<"X-Throttled-For", Some(n)>>})

\* At a frozen clock, with limit 1: one call for the identity is admitted with
\* (True, {}) and every other one is denied, its hint in waits.
OneThenDenied(waits) ==
    /\ Called => last.res \in {Pair(TRUE, {})} \cup {XThrottledFor(n) : n \in waits}
    /\ \A e \in DOMAIN admitted : admitted[e] <= 1

\* C13: with limit 1, window 10 and bucket 2, at any frozen clock value, the
\* first allow() for an identity is admitted and the second is denied with
\* X-Throttled-For = 13.
C13_SecondDenied13 ==
    IsTest(Some([td |-> TRUE, secs |-> 2]), 1, 10) => OneThenDenied({13})

\* C14: with limit 1, window 60 and no bucket the bucket is 6 seconds; at any
\* frozen clock value the first allow() is admitted and the second is denied
\* with X-Throttled-For = 67.
C14_DefaultBucket67 ==
    IsTest(None, 1, 60) =>
        (throttle.ok /\ throttle.bucket = 6 /\ OneThenDenied({67}))

\* C15: with limit 1, window 61 and bucket 10, at any frozen clock value, the
\* first allow() is admitted and the second is denied with an X-Throttled-For
\* between 61 and 81.
C15_NotDivisible61To81 ==
    IsTest(Some([td |-> TRUE, secs |-> 10]), 1, 61) => OneThenDenied(61..81)

\* C16: a limiter constructed anew from the same rate and bucket answers
\* allow() as the instance that served the earlier calls does: for every
\* store, clock, identity and suffix it gives the same result and makes the
\* same change to the store.
C16_RestartIdempotent ==
    throttle.ok =>
        \E fresh \in {Construct(throttle.args)} :
            /\ fresh.ok
            /\ \A auth \in Auths, suffix \in Suffixes :
                  \E d \in {Decide(cache, now, throttle, auth, suffix)} :
                      /\ Decide(cache, now, fresh, auth, suffix) = d
                      /\ ~d.done => Record(cache, now, fresh, d.bkey)
                                      = Record(cache, now, throttle, d.bkey)

\* The instance has admitted a request and denied one, and a call it would now
\* get is admitted, changing the store.
C16_Witness ==
    /\ Denied
    /\ admitted # <<>>
    /\ \E auth \in Auths, suffix \in Suffixes :
          ~Decide(cache, now, throttle, auth, suffix).done

\* C17: a failure raised by the store in get_many, incr or set, other than the
\* ValueError of incr on an absent key, leaves allow() as that failure: the
\* call is over with no decision, makes no further store operation and the
\* store is as the failed operation left it.
C17_StoreFailurePropagates ==
    [][\A p \in FailCallers :
          (FailGet(p) \/ FailIncr(p) \/ FailSet(p)) =>
              /\ callers'[p] = Idle
              /\ last'.res = Raise("StoreError")
              /\ cache' = cache]_vars

\* A call ended by the failure of its incr, the key present in the store.
C17_Witness ==
    /\ last.res = Raise("StoreError")
    /\ last.incrs = 1
    /\ last.sets = 0
    /\ last.read \subseteq DOMAIN cache

\* C18: an API whose view is throttled by ThrottleOne (1 request per 10
\* seconds, bucket 2) answers the first authenticated request with the view's
\* 200 and the next one with 429, an empty body and Retry-After '13', the view
\* not invoked; and every 429 it gives has an empty body and a Retry-After.
C18_DispatchThrottled ==
    \A i \in 1..Len(api.log) :
        \E o \in {api.opts[1]}, e \in {api.log[i]} :
            /\ (o.throttle = ThrottleOne /\ o.auth /\ ~o.only
                    /\ \A j \in 1..i : /\ api.log[j].req.method
                                         /\ api.log[j].req.authed
                                         /\ ~api.log[j].req.raises) =>
                  IF i = 1
                  THEN e.res.status = 200 /\ e.res.viewed
                  ELSE /\ e.res.status = 429
                       /\ e.res.content = ""
                       /\ <<"Retry-After", "13">> \in e.res.headers
                       /\ ~e.res.viewed
            /\ e.res.status = 429 =>
                  /\ e.res.content = ""
                  /\ ~e.res.viewed
                  /\ \E h \in e.res.headers : h[1] = "Retry-After"

C20_OneBulkRead ==
    (Called /\ throttle.rate # None /\ last.auth # AuthAnon) =>
        /\ last.gets = 1
        /\ Cardinality(last.read) <= throttle.nbuckets + 1

\* The key of the bucket current at clock t for the callers of SpecConc.
CurrentKey(t) ==
    BucketKey(Key(ConcAuth, ConcSuffix).key, throttle,
              t - PyMod(t, throttle.bucket))

\* C21: an admitting allow() changes one store entry, the key of the bucket
\* current when it read the store: the incr adds 1 to it and keeps its expiry;
\* when the key is absent the incr changes nothing and the set that follows
\* makes it 1 with expiry window + bucket; the call returns (True, {}) and
\* every other entry is unchanged.
C21_AdmitWritesCurrent ==
    [][\A p \in 1..NCallers :
          \E k \in {CurrentKey(callers[p].at)} :
              /\ IncrStep(p) =>
                    IF k \in DOMAIN cache
                    THEN /\ cache' = [cache EXCEPT ![k].val = @ + 1]
                         /\ last'.res = Pair(TRUE, {})
                    ELSE cache' = cache /\ callers'[p].pc = "set"
              /\ SetStep(p) =>
                    /\ DOMAIN cache' = DOMAIN cache \cup {k}
                    /\ cache'[k] = [val |-> 1,
                                    exp |-> Some(now + throttle.rate[1][2]
                                                     + throttle.bucket)]
                    /\ \A j \in DOMAIN cache \ {k} : cache'[j] = cache[j]
                    /\ last'.res = Pair(TRUE, {})]_vars

\* A call admitted through the set, other entries being in the store.
C21_Witness ==
    /\ last.res = Pair(TRUE, {})
    /\ last.sets = 1
    /\ Cardinality(DOMAIN cache) >= 2

\* C22: a denying allow() makes the bulk read and nothing else: no incr, no
\* set, and the store after the call is the store before it, counts and
\* expiries alike.
C22_DenialLeavesStore ==
    [][(now' = now /\ last'.res.type = "pair" /\ ~last'.res.allowed) =>
          /\ cache' = cache
          /\ last'.gets = 1
          /\ last'.incrs = 0
          /\ last'.sets = 0]_vars

\* A request denied after one was admitted for its key at the same clock.
C22_Witness ==
    /\ Denied
    /\ ProperRate
    /\ AdmittedIn(Key(last.auth, last.suffix).key, last.at, last.at) >= 1

\* The timestamps the last call enumerated whose key holds a count other
\* than 0 (in Spec no entry expires and a denial writes nothing: the store is
\* the one the call read).
NonEmpty ==
    LET bs == Buckets(last.at, throttle)
        key == Key(last.auth, last.suffix).key
    IN {bs[i] : i \in {j \in 1..Len(bs) :
                          /\ BucketKey(key, throttle, bs[j]) \in DOMAIN cache
                          /\ cache[BucketKey(key, throttle, bs[j])].val # 0}}

C24_BucketCountFloor ==
    (throttle.ok /\ throttle.rate # None
        /\ 1 <= throttle.bucket /\ throttle.bucket <= throttle.rate[1][2]) =>
        /\ throttle.nbuckets * throttle.bucket <= throttle.rate[1][2]
        /\ throttle.rate[1][2] < (throttle.nbuckets + 1) * throttle.bucket

\* A limiter whose bucket, a duration, does not divide its window, at work: a
\* call has read nbuckets + 1 keys.
C24_Witness ==
    /\ throttle.ok
    /\ throttle.bfloat
    /\ PyMod(throttle.rate[1][2], throttle.bucket) # 0
    /\ Called
    /\ Cardinality(last.read) = throttle.nbuckets + 1

\* Dispatch made the call named step while serving the request of entry e.
Made(e, step) == \E k \in 1..Len(e.res.steps) : e.res.steps[k] = step

Names(attrs) == {x[1] : x \in attrs}

\* The request of entry e carried auth and throttle while its view ran, if it
\* ran, and carried neither when dispatch returned.
CarriedWhileViewed(e) ==
    /\ e.res.viewed => {"auth", "throttle"} \subseteq Names(e.res.seen)
    /\ Names(e.res.left) \cap {"auth", "throttle"} = {}

Stored(c, k) == IF k \in DOMAIN c THEN c[k].val ELSE 0

\* C27: under any interleaving of the callers of allow() for one key every
\* admission is recorded: the store operation that ends an admitted call
\* leaves the count of the call's bucket one above what it was, also when
\* several callers take the set after a failed incr on the same bucket.
C27_AdmissionsRecorded ==
    [][\A p \in 1..NCallers :
          ((IncrStep(p) \/ SetStep(p)) /\ callers'[p].pc = "idle") =>
              \E k \in {CurrentKey(callers[p].at)} :
                  Stored(cache', k) = Stored(cache, k) + 1]_vars

\* The limiter has a proper rate and a bucket of at least a second that divides
\* its window.
Divides ==
    /\ ProperRate
    /\ throttle.bucket >= 1
    /\ PyMod(throttle.rate[1][2], throttle.bucket) = 0

\* The window [k * window, (k + 1) * window) that holds clock t.
Epoch(t) == t \div throttle.rate[1][2]

\* C28: with a bucket that divides the window, in sequential use, at most limit
\* requests are admitted per key in any window [k * W, (k + 1) * W), and a call
\* that reads the store enumerates the bucket of every request admitted for
\* its key earlier in its window.
C28_AlignedWindowLimit ==
    Divides =>
        /\ \A e \in DOMAIN admitted :
              AdmittedIn(e[1], Epoch(e[2]) * throttle.rate[1][2],
                         (Epoch(e[2]) + 1) * throttle.rate[1][2] - 1)
                  <= throttle.rate[1][1]
        /\ last.gets = 1 =>
              \A e \in DOMAIN admitted :
                  (/\ e[1] = Key(last.auth, last.suffix).key
                   /\ e[2] <= last.at
                   /\ Epoch(e[2]) = Epoch(last.at)) =>
                      BucketKey(e[1], throttle,
                                e[2] - PyMod(e[2], throttle.bucket)) \in last.read

\* A request denied in a window whose limit was used up in an older bucket of
\* the same window.
C28_Witness ==
    /\ Divides
    /\ Denied
    /\ \E t \in 0..MaxNow :
          /\ Epoch(t) = Epoch(last.at)
          /\ t - PyMod(t, throttle.bucket) < last.at - PyMod(last.at, throttle.bucket)
          /\ AdmittedIn(Key(last.auth, last.suffix).key, t, t) = throttle.rate[1][1]

\* The clock values from the later of a and b on, as far as one window and one
\* bucket after it.
From(a, b) ==
    LET start == IF a > b THEN a ELSE b
        nsec == throttle.rate[1][2]
    IN start..(start + (IF nsec < 0 THEN -nsec ELSE nsec) + throttle.bucket)

\* C29: an entry made by set() leaves the store window + bucket seconds after
\* the set, and from then on (and from the set on) no call of allow()
\* enumerates the timestamp of its bucket: expiry drops no count that a
\* decision would read.
C29_ExpiryAfterEnumeration ==
    \A b \in 0..MaxNow :
        \E k \in {BucketKey(Key(ConcAuth, ConcSuffix).key, throttle, b)} :
            (k \in DOMAIN cache /\ cache[k].exp \notin SeedExps) =>
                \A t \in From(cache[k].exp[1], cache[k].exp[1] - Timeout(throttle)) :
                    \A i \in 1..Len(Buckets(t, throttle)) :
                        Buckets(t, throttle)[i] # b

\* C30: a denial by a limiter with limit >= 1 carries a hint that is a number r
\* with 2 * bucket <= r <= window + 3 * bucket - 1, never None.
C30_RetryHintRange ==
    (throttle.ok /\ throttle.rate # None /\ throttle.rate[1][1] >= 1 /\ Denied) =>
        \A h \in last.res.headers :
            /\ h[2] # None
            /\ 2 * throttle.bucket <= h[2][1]
            /\ h[2][1] <= throttle.rate[1][2] + 3 * throttle.bucket - 1

====
